---- MODULE Spec2Model ----
(***************************************************************************)
(* Model of commands/check.go: one invocation of check.Execute, with       *)
(* performCheck and headOrGet as the sub-steps it calls.  Every registry   *)
(* request (remote.Head / remote.Get) is one step whose answer is drawn    *)
(* from the answers a registry can give; the requests are recorded in net. *)
(***************************************************************************)
EXTENDS Integers, Sequences, FiniteSets, TLC

\* ---------------------------------------------------------------- bounds
NumDigests == 2

Nil == 0
Digests == 1..NumDigests

\* ------------------------------------------------------ program constants
DefaultRegistry == "index.docker.io"
StatusNotFound == 404

\* ------------------------------------------------------------ data values
NoErr == [type |-> "nil", StatusCode |-> 0]
\* errors a registry request can fail with: a *transport.Error carrying an
\* HTTP status, or any other error (connection refused, timeout, ...)
RequestErrors ==
  { [type |-> "transport", StatusCode |-> StatusNotFound],
    [type |-> "transport", StatusCode |-> 500],
    [type |-> "other", StatusCode |-> 0] }

NoCredentials == [Username |-> "", Password |-> ""]
OriginCredentials == [Username : {"", "user"}, Password : {"", "pass"}]
MirrorCredentials == [Username : {"", "muser"}, Password : {"", "mpass"}]
EcrCredentials == [Username |-> "AWS", Password |-> "ecr-token"]

NoMirror == [present |-> FALSE, Host |-> "", BasicCredentials |-> NoCredentials]
MirrorHosts == {"mirror.example.com", "bad host"}
Mirrors ==
  {NoMirror} \cup
  [present : {TRUE}, Host : MirrorHosts, BasicCredentials : MirrorCredentials]

\* "" does not name a repository; "busybox" lives on the default registry;
\* "example.com/busybox" names its registry explicitly
Repositories == {"", "busybox", "example.com/busybox"}

Sources ==
  [ Repository : Repositories,
    RegistryMirror : Mirrors,
    BasicCredentials : OriginCredentials,
    AwsAccessKeyId : {"", "AKIA"},
    AwsSecretAccessKey : {"", "secret"},
    AwsRegion : {"", "eu-west-1"} ]

CheckRequests == [Source : Sources, Version : {Nil} \cup Digests]

ZeroRequest ==
  [ Source |-> [ Repository |-> "", RegistryMirror |-> NoMirror,
                 BasicCredentials |-> NoCredentials, AwsAccessKeyId |-> "",
                 AwsSecretAccessKey |-> "", AwsRegion |-> "" ],
    Version |-> Nil ]

\* what stdin holds: a payload that decodes to a request, or one that does not
Payloads ==
  {[valid |-> FALSE, req |-> ZeroRequest]} \cup [valid : {TRUE}, req : CheckRequests]

NoRepository == [ok |-> FALSE, Registry |-> "", Path |-> ""]
NoRef == [Registry |-> "", Path |-> "", kind |-> "none", digest |-> Nil]
NoReturn == [digest |-> Nil, found |-> FALSE, err |-> NoErr]
NoResult == [kind |-> "running", msg |-> "", host |-> ""]

VARIABLES
  stdin,      \* the payload on c.stdin
  stdout,     \* the values the encoder delivered to c.stdout
  warnings,   \* logrus warnings
  net,        \* the registry requests sent so far, with their answers
  pc,         \* position in Execute / performCheck / headOrGet
  result,     \* what Execute returned
  req,        \* Execute: req
  repo,       \* Execute: repo
  tag,        \* Execute: *tag
  response,   \* Execute: response
  err,        \* Execute: err (function scope)
  mirrorErr,  \* Execute: err declared inside the mirror block (line 75)
  caller,     \* which call of performCheck is running: "mirror" or "origin"
  principal,  \* performCheck: principal
  version,    \* performCheck: version
  ref,        \* performCheck: ref
  imageOpts,  \* performCheck: the authentication carried by imageOpts
  digest,     \* performCheck: digest
  found,      \* performCheck: found (function scope)
  pcResponse, \* performCheck: response
  hgRef,      \* headOrGet: ref
  headErr,    \* headOrGet: err of remote.Head
  hg,         \* the value headOrGet returned
  ret,        \* the value performCheck returned
  calls,      \* the token exchange and the output write, with their outcome
  run,        \* which invocation of the program this is
  before      \* what the previous invocation read, sent and returned

vars ==
  << stdin, stdout, warnings, net, pc, result, req, repo, tag, response, err,
     mirrorErr, caller, principal, version, ref, imageOpts, digest, found,
     pcResponse, hgRef, headErr, hg, ret, calls, run, before >>

execVars == << req, repo, tag, response, err, mirrorErr >>
checkVars == << caller, principal, version, ref, imageOpts, digest, found, pcResponse >>
hgVars == << hgRef, headErr, hg >>
ioVars == << stdin, stdout, warnings, net >>
runVars == << run, before >>

NoInvocation ==
  [ stdin |-> [valid |-> FALSE, req |-> ZeroRequest], net |-> << >>,
    calls |-> << >>, result |-> NoResult, stdout |-> << >> ]

\* the state in which Execute is entered, reading payload
Entry(payload) ==
  /\ stdin = payload
  /\ stdout = << >>
  /\ warnings = << >>
  /\ net = << >>
  /\ pc = "decode"
  /\ result = NoResult
  /\ req = ZeroRequest
  /\ repo = NoRepository
  /\ tag = NoRef
  /\ response = << >>
  /\ err = NoErr
  /\ mirrorErr = NoErr
  /\ caller = "none"
  /\ principal = NoCredentials
  /\ version = Nil
  /\ ref = NoRef
  /\ imageOpts = [anonymous |-> TRUE, auth |-> NoCredentials]
  /\ digest = Nil
  /\ found = FALSE
  /\ pcResponse = << >>
  /\ hgRef = NoRef
  /\ headErr = NoErr
  /\ hg = NoReturn
  /\ ret = [response |-> << >>, err |-> NoErr]
  /\ calls = << >>

Init ==
  /\ \E payload \in Payloads : Entry(payload)
  /\ run = 1
  /\ before = NoInvocation

\* ------------------------------------------------- name parsing (library)
\* name.NewRepository: the registry and path a repository string names
NewRepository(s) ==
  CASE s = "busybox" ->
         [ok |-> TRUE, Registry |-> DefaultRegistry, Path |-> "library/busybox"]
    [] s = "index.docker.io/library/busybox" ->
         [ok |-> TRUE, Registry |-> DefaultRegistry, Path |-> "library/busybox"]
    [] s = "example.com/busybox" ->
         [ok |-> TRUE, Registry |-> "example.com", Path |-> "busybox"]
    [] OTHER -> NoRepository

\* Repository.String()
RepositoryString(r) == IF r.Registry = DefaultRegistry
                       THEN "index.docker.io/library/busybox"
                       ELSE "example.com/busybox"

\* name.NewRegistry
NewRegistry(h) == IF h = "bad host"
                  THEN [ok |-> FALSE, Registry |-> ""]
                  ELSE [ok |-> TRUE, Registry |-> h]

\* Repository.Tag(req.Source.Tag()) and Repository.Digest(d)
TagRef(r) ==
  [Registry |-> r.Registry, Path |-> r.Path, kind |-> "tag", digest |-> Nil]
\* the digest reference built in the origin repository, whatever r is
DigestRef_Origin(r, d) ==
  [Registry |-> repo.Registry, Path |-> repo.Path, kind |-> "digest", digest |-> d]

DigestRef(r, d) ==
  [Registry |-> r.Registry, Path |-> r.Path, kind |-> "digest", digest |-> d]

\* ------------------------------------------------------- the code's tests
\* the token exchange entered as soon as one of the three fields is set
EcrConfigured_Any(source) ==
  \/ source.AwsAccessKeyId # ""
  \/ source.AwsSecretAccessKey # ""
  \/ source.AwsRegion # ""

\* line 58
EcrConfigured(source) ==
  /\ source.AwsAccessKeyId # ""
  /\ source.AwsSecretAccessKey # ""
  /\ source.AwsRegion # ""

\* Source.AuthenticateToECR, on success: the token becomes the credentials
AuthenticateToECR(source) == [source EXCEPT !.BasicCredentials = EcrCredentials]

\* the eligibility test without its comparison with the default registry
MirrorEligible_AnyRegistry(source, r) == source.RegistryMirror.present

\* line 74
MirrorEligible(source, r) ==
  source.RegistryMirror.present /\ r.Registry = DefaultRegistry

\* the mirror attempt made with the credentials of the origin
MirrorPrincipal_Origin(source) == source.BasicCredentials

\* line 87: the principal of the mirror attempt
MirrorPrincipal(source) == source.RegistryMirror.BasicCredentials

\* line 97: the principal of the origin attempt
OriginPrincipal(source) == source.BasicCredentials

\* the origin attempted whatever the mirror answered
OriginNeeded_Always(resp) == TRUE

\* the test of line 95 inverted
OriginNeeded_Inverted(resp) == Len(resp) # 0

\* line 95
OriginNeeded(resp) == Len(resp) = 0

\* lines 112-126: the authentication performCheck puts in imageOpts
ImageOpts(p) ==
  IF p.Username # "" /\ p.Password # ""
  THEN [anonymous |-> FALSE, auth |-> p]
  ELSE [anonymous |-> TRUE, auth |-> NoCredentials]

\* the test of line 134 without the comparison of the two digests
NeedsPrevious_NoCompare(v, fnd, d) == v # Nil /\ fnd

\* the test of line 134 without found: the previous digest asked for
\* whether the tag resolved or not
NeedsPrevious_NoFound(v, fnd, d) == v # Nil /\ v # d

\* line 134
NeedsPrevious(v, fnd, d) == v # Nil /\ fnd /\ v # d

\* what was resolved so far returned together with the error
FailedResponse_Resolved(d) == IF d # Nil THEN << d >> ELSE << >>

\* lines 130 and 139: the response performCheck returns with an error
FailedResponse(d) == << >>

\* the previous version appended whether its digest was found or not
AppendPrevious_Always(resp, fnd, v) == Append(resp, v)

\* lines 142-144
AppendPrevious(resp, fnd, v) == IF fnd THEN Append(resp, v) ELSE resp

\* the current digest put first instead of last
AppendCurrent_Prepend(resp, fnd, d) == IF fnd THEN << d >> \o resp ELSE resp

\* lines 147-151
AppendCurrent(resp, fnd, d) == IF fnd THEN Append(resp, d) ELSE resp

\* no error counts as a missing manifest
checkMissingManifest_Never(e) == FALSE

\* every transport error counts as a missing manifest, whatever its status
checkMissingManifest_AnyStatus(e) == e.type = "transport"

\* lines 178-184
checkMissingManifest(e) == e.type = "transport" /\ e.StatusCode = StatusNotFound

\* only a successful HEAD decides: a 404 on HEAD falls back on GET too
HeadDecides_OnlyOk(out) == out.ok

\* headOrGet, lines 157-161 and 175: does it return on the HEAD's answer?
HeadDecides(out) == out.ok \/ checkMissingManifest(out.err)

\* the zero hash returned on success as well
HeadReturn_ZeroHash(out) == [digest |-> Nil, found |-> out.ok, err |-> NoErr]

\* headOrGet, lines 160 and 175
HeadReturn(out) ==
  IF out.ok THEN [digest |-> out.digest, found |-> TRUE, err |-> NoErr]
  ELSE [digest |-> Nil, found |-> FALSE, err |-> NoErr]

\* a 404 of the GET returned as an error like any other
GetReturn_NotFoundIsError(out) ==
  IF out.ok THEN [digest |-> out.digest, found |-> TRUE, err |-> NoErr]
  ELSE [digest |-> Nil, found |-> FALSE, err |-> out.err]

\* headOrGet, lines 163-172
GetReturn(out) ==
  IF out.ok THEN [digest |-> out.digest, found |-> TRUE, err |-> NoErr]
  ELSE IF checkMissingManifest(out.err)
       THEN [digest |-> Nil, found |-> FALSE, err |-> NoErr]
       ELSE [digest |-> Nil, found |-> FALSE, err |-> out.err]

\* --------------------------------------------------------- the registries
\* what a registry can answer to a manifest request on reference r: the
\* digest the tag points at (any), the digest asked for, or an error
Answers(r) ==
  [ok : {TRUE}, digest : (IF r.kind = "tag" THEN Digests ELSE {r.digest}), err : {NoErr}]
  \cup [ok : {FALSE}, digest : {Nil}, err : RequestErrors]

Request(verb, r, opts, out) ==
  [host |-> r.Registry, repo |-> r.Path, verb |-> verb, ref |-> r.kind,
   digest |-> r.digest, anonymous |-> opts.anonymous, auth |-> opts.auth,
   answer |-> out]

\* the registries do not change between two invocations: a request sent
\* before gets the answer it got before
Replies(verb, r, opts) ==
  LET same(i) == /\ before.net[i].host = r.Registry
                 /\ before.net[i].repo = r.Path
                 /\ before.net[i].verb = verb
                 /\ before.net[i].ref = r.kind
                 /\ before.net[i].digest = r.digest
                 /\ before.net[i].anonymous = opts.anonymous
                 /\ before.net[i].auth = opts.auth
      sent == {i \in DOMAIN before.net : same(i)}
  IN IF sent = {} THEN Answers(r) ELSE {before.net[i].answer : i \in sent}

\* ---------------------------------------------------------------- Execute
Fail(msg, host) ==
  /\ result' = [kind |-> "error", msg |-> msg, host |-> host]
  /\ pc' = "done"

\* lines 50-56
ExecuteDecode ==
  /\ pc = "decode"
  /\ UNCHANGED << calls, runVars >>
  /\ IF stdin.valid
     THEN /\ req' = stdin.req
          /\ pc' = "authenticate"
          /\ UNCHANGED result
     ELSE /\ Fail("invalid payload", "")
          /\ UNCHANGED req
  /\ UNCHANGED << repo, tag, response, err, mirrorErr >>
  /\ UNCHANGED << checkVars, hgVars, ioVars, ret >>

\* lines 58-62
ExecuteAuthenticate ==
  /\ pc = "authenticate"
  /\ UNCHANGED runVars
  /\ IF EcrConfigured(req.Source)
     THEN \E authenticated \in BOOLEAN :
            /\ calls' = Append(calls, [call |-> "AuthenticateToECR", ok |-> authenticated])
            /\ IF authenticated
               THEN /\ req' = [req EXCEPT !.Source = AuthenticateToECR(req.Source)]
                    /\ pc' = "repository"
                    /\ UNCHANGED result
               ELSE /\ Fail("cannot authenticate with ECR", "")
                    /\ UNCHANGED req
     ELSE /\ pc' = "repository"
          /\ UNCHANGED << req, result, calls >>
  /\ UNCHANGED << repo, tag, response, err, mirrorErr >>
  /\ UNCHANGED << checkVars, hgVars, ioVars, ret >>

\* lines 64-70
ExecuteRepository ==
  /\ pc = "repository"
  /\ UNCHANGED << calls, runVars >>
  /\ LET r == NewRepository(req.Source.Repository) IN
       IF r.ok
       THEN /\ repo' = r
            /\ pc' = "mirror"
            /\ UNCHANGED result
       ELSE /\ Fail("failed to resolve repository", "")
            /\ UNCHANGED repo
  /\ UNCHANGED << req, tag, response, err, mirrorErr >>
  /\ UNCHANGED << checkVars, hgVars, ioVars, ret >>

\* performCheck, lines 111-128: entered with (principal, version, ref), it
\* builds imageOpts and calls headOrGet on the tag
PerformCheck(c, p, v, r) ==
  /\ caller' = c
  /\ principal' = p
  /\ version' = v
  /\ ref' = r
  /\ imageOpts' = ImageOpts(p)
  /\ digest' = Nil
  /\ found' = FALSE
  /\ pcResponse' = << >>
  /\ hgRef' = r
  /\ headErr' = NoErr
  /\ pc' = "head"

\* lines 74-87
ExecuteMirror ==
  /\ pc = "mirror"
  /\ UNCHANGED << calls, runVars >>
  /\ IF MirrorEligible(req.Source, repo)
     THEN LET mirror == NewRepository(RepositoryString(repo))
              registry == NewRegistry(req.Source.RegistryMirror.Host) IN
            IF ~mirror.ok
            THEN /\ Fail("could not resolve mirror repository", "")
                 /\ UNCHANGED << tag, checkVars, hgRef, headErr >>
            ELSE IF ~registry.ok
            THEN /\ Fail("could not resolve registry", "")
                 /\ UNCHANGED << tag, checkVars, hgRef, headErr >>
            ELSE /\ tag' = TagRef([mirror EXCEPT !.Registry = registry.Registry])
                 /\ PerformCheck("mirror", MirrorPrincipal(req.Source), req.Version, tag')
                 /\ UNCHANGED result
     ELSE /\ pc' = "origin"
          /\ UNCHANGED << tag, result, checkVars, hgRef, headErr >>
  /\ UNCHANGED << req, repo, response, err, mirrorErr, hg, ioVars, ret >>

\* lines 87-92
ExecuteMirrorReturn ==
  /\ pc = "mirrorReturn"
  /\ UNCHANGED << calls, runVars >>
  /\ response' = ret.response
  /\ mirrorErr' = ret.err
  /\ warnings' =
       IF ret.err # NoErr
       THEN Append(warnings, [host |-> tag.Registry, msg |-> "checking mirror failed"])
       ELSE IF Len(ret.response) = 0
       THEN Append(warnings, [host |-> tag.Registry, msg |-> "tag not found"])
       ELSE warnings
  /\ pc' = "origin"
  /\ UNCHANGED << req, repo, tag, err, result, stdin, stdout, net >>
  /\ UNCHANGED << checkVars, hgVars, ret >>

\* lines 95-97
ExecuteOrigin ==
  /\ pc = "origin"
  /\ UNCHANGED << calls, runVars >>
  /\ IF OriginNeeded(response)
     THEN /\ tag' = TagRef(repo)
          /\ PerformCheck("origin", OriginPrincipal(req.Source), req.Version, tag')
     ELSE /\ pc' = "finish"
          /\ UNCHANGED << tag, checkVars, hgRef, headErr >>
  /\ UNCHANGED << req, repo, response, err, mirrorErr, result, hg, ioVars, ret >>

\* line 97, the assignment of performCheck's results
ExecuteOriginReturn ==
  /\ pc = "originReturn"
  /\ UNCHANGED << calls, runVars >>
  /\ response' = ret.response
  /\ err' = ret.err
  /\ pc' = "finish"
  /\ UNCHANGED << req, repo, tag, mirrorErr, result >>
  /\ UNCHANGED << checkVars, hgVars, ioVars, ret >>

\* lines 99-108; the encoder hands the whole response to c.stdout in one
\* write, which the writer accepts or rejects
ExecuteFinish ==
  /\ pc = "finish"
  /\ UNCHANGED runVars
  /\ IF err # NoErr
     THEN /\ Fail("checking origin failed", tag.Registry)
          /\ UNCHANGED << stdout, calls >>
     ELSE \E accepted \in BOOLEAN :
            /\ calls' = Append(calls, [call |-> "Encode", ok |-> accepted])
            /\ IF accepted
               THEN /\ stdout' = Append(stdout, response)
                    /\ result' = [kind |-> "ok", msg |-> "", host |-> ""]
                    /\ pc' = "done"
               ELSE /\ Fail("could not marshal JSON", "")
                    /\ UNCHANGED stdout
  /\ UNCHANGED << execVars, checkVars, hgVars, stdin, warnings, net, ret >>

\* ----------------------------------------------------------- performCheck
Return(resp, e) ==
  /\ ret' = [response |-> resp, err |-> e]
  /\ pc' = IF caller = "mirror" THEN "mirrorReturn" ELSE "originReturn"

\* lines 128-135 and 147-153: headOrGet returned for the tag
PerformCheckTag ==
  /\ pc = "afterTag"
  /\ UNCHANGED << calls, runVars >>
  /\ IF hg.err # NoErr
     THEN /\ Return(FailedResponse(digest), hg.err)
          /\ UNCHANGED << digest, found, pcResponse, hgRef >>
     ELSE /\ digest' = hg.digest
          /\ found' = hg.found
          /\ IF NeedsPrevious(version, hg.found, hg.digest)
             THEN /\ hgRef' = DigestRef(ref, version)
                  /\ pc' = "head"
                  /\ UNCHANGED << pcResponse, ret >>
             ELSE /\ pcResponse' = AppendCurrent(<< >>, hg.found, hg.digest)
                  /\ Return(pcResponse', NoErr)
                  /\ UNCHANGED hgRef
  /\ UNCHANGED << caller, principal, version, ref, imageOpts, headErr, hg >>
  /\ UNCHANGED << execVars, result, ioVars >>

\* lines 137-153: headOrGet returned for the previous version's digest; its
\* found and err are new variables of the inner block
PerformCheckDigest ==
  /\ pc = "afterDigest"
  /\ UNCHANGED << calls, runVars >>
  /\ IF hg.err # NoErr
     THEN /\ Return(FailedResponse(digest), hg.err)
          /\ UNCHANGED pcResponse
     ELSE /\ pcResponse' = AppendCurrent(AppendPrevious(<< >>, hg.found, version),
                                         found, digest)
          /\ Return(pcResponse', NoErr)
  /\ UNCHANGED << caller, principal, version, ref, imageOpts, digest, found >>
  /\ UNCHANGED << execVars, result, hgVars, ioVars >>

\* -------------------------------------------------------------- headOrGet
AfterHeadOrGet == IF hgRef.kind = "tag" THEN "afterTag" ELSE "afterDigest"

\* lines 157-161 and 175: remote.Head
RemoteHead ==
  /\ pc = "head"
  /\ UNCHANGED << calls, runVars >>
  /\ \E out \in Replies("HEAD", hgRef, imageOpts) :
       /\ net' = Append(net, Request("HEAD", hgRef, imageOpts, out))
       /\ IF HeadDecides(out)
          THEN /\ hg' = HeadReturn(out)
               /\ pc' = AfterHeadOrGet
               /\ UNCHANGED headErr
          ELSE /\ headErr' = out.err
               /\ pc' = "get"
               /\ UNCHANGED hg
  /\ UNCHANGED << execVars, checkVars, hgRef, result, stdin, stdout, warnings, ret >>

\* lines 163-172: remote.Get
RemoteGet ==
  /\ pc = "get"
  /\ UNCHANGED << calls, runVars >>
  /\ \E out \in Replies("GET", hgRef, imageOpts) :
       /\ net' = Append(net, Request("GET", hgRef, imageOpts, out))
       /\ hg' = GetReturn(out)
       /\ pc' = AfterHeadOrGet
  /\ UNCHANGED << execVars, checkVars, hgRef, headErr, result, stdin, stdout, warnings, ret >>

Next ==
  \/ ExecuteDecode
  \/ ExecuteAuthenticate
  \/ ExecuteRepository
  \/ ExecuteMirror
  \/ ExecuteMirrorReturn
  \/ ExecuteOrigin
  \/ ExecuteOriginReturn
  \/ ExecuteFinish
  \/ PerformCheckTag
  \/ PerformCheckDigest
  \/ RemoteHead
  \/ RemoteGet

Spec == Init /\ [][Next]_vars

\* ------------------------------------------------------ two invocations
\* a value kept from one invocation to the next
NewResponse_Kept == response

\* line 69: var response CheckResponse
NewResponse == << >>

\* NewCheck and the entry of Execute, a second time: a new process reads
\* payload and starts from fresh variables, against the same registries
Invoke(payload) ==
  /\ pc = "done"
  /\ run = 1
  /\ run' = 2
  /\ before' = [ stdin |-> stdin, net |-> net, calls |-> calls,
                 result |-> result, stdout |-> stdout ]
  /\ stdin' = payload
  /\ stdout' = << >>
  /\ warnings' = << >>
  /\ net' = << >>
  /\ calls' = << >>
  /\ pc' = "decode"
  /\ result' = NoResult
  /\ req' = ZeroRequest
  /\ repo' = NoRepository
  /\ tag' = NoRef
  /\ response' = NewResponse
  /\ err' = NoErr
  /\ mirrorErr' = NoErr
  /\ caller' = "none"
  /\ principal' = NoCredentials
  /\ version' = Nil
  /\ ref' = NoRef
  /\ imageOpts' = [anonymous |-> TRUE, auth |-> NoCredentials]
  /\ digest' = Nil
  /\ found' = FALSE
  /\ pcResponse' = << >>
  /\ hgRef' = NoRef
  /\ headErr' = NoErr
  /\ hg' = NoReturn
  /\ ret' = [response |-> << >>, err |-> NoErr]

\* the same request once more
InvokeAgain == Invoke(stdin)

\* the same request with its mirror taken out
InvokeWithoutMirror ==
  /\ stdin.valid
  /\ stdin.req.Source.RegistryMirror.present
  /\ Invoke([stdin EXCEPT !.req.Source.RegistryMirror = NoMirror])

\* the requests the two-invocation specification starts from: credentials
\* and the token triple whole or short of its key id
TwicePayloads ==
  [ valid : {TRUE},
    req : [ Source : [ Repository : {"busybox", "example.com/busybox"},
                       RegistryMirror :
                         { NoMirror,
                           [ present |-> TRUE, Host |-> "mirror.example.com",
                             BasicCredentials |->
                               [Username |-> "muser", Password |-> "mpass"] ] },
                       BasicCredentials : {[Username |-> "user", Password |-> "pass"]},
                       AwsAccessKeyId : {"", "AKIA"},
                       AwsSecretAccessKey : {"secret"},
                       AwsRegion : {"eu-west-1"} ],
            Version : {Nil} \cup Digests ] ]

InitTwice ==
  /\ \E payload \in TwicePayloads : Entry(payload)
  /\ run = 1
  /\ before = NoInvocation

NextTwice ==
  \/ Next
  \/ InvokeAgain
  \/ InvokeWithoutMirror

SpecTwice == InitTwice /\ [][NextTwice]_vars

TypeOK ==
  /\ pc \in {"decode", "authenticate", "repository", "mirror", "mirrorReturn",
             "origin", "originReturn", "finish", "done", "head", "get",
             "afterTag", "afterDigest"}
  /\ version \in {Nil} \cup Digests
  /\ Len(response) <= 2

\* ------------------------------------------------- vocabulary of the claims
Input == stdin.req
OriginHost == NewRepository(Input.Source.Repository).Registry
MirrorHost == Input.Source.RegistryMirror.Host
MirrorConfigured == stdin.valid /\ Input.Source.RegistryMirror.present
Eligible == MirrorConfigured /\ OriginHost = "index.docker.io"

Requests(h) == {i \in DOMAIN net : net[i].host = h}
NotFoundAnswer(a) == ~a.ok /\ a.err.type = "transport" /\ a.err.StatusCode = 404
HardError(a) == ~a.ok /\ ~NotFoundAnswer(a)

\* headOrGet fails exactly when its GET fails with something else than a 404
AttemptHardError(h) ==
  \E i \in Requests(h) : net[i].verb = "GET" /\ HardError(net[i].answer)
TagQueried(h) == \E i \in Requests(h) : net[i].ref = "tag"
TagFound(h) == \E i \in Requests(h) : net[i].ref = "tag" /\ net[i].answer.ok
TagNotFound(h) ==
  \E i \in Requests(h) : net[i].ref = "tag" /\ NotFoundAnswer(net[i].answer)
TagDigest(h) ==
  net[CHOOSE i \in Requests(h) : net[i].ref = "tag" /\ net[i].answer.ok].answer.digest
PreviousQueried(h) == \E i \in Requests(h) : net[i].ref = "digest"
PreviousFound(h) ==
  \E i \in Requests(h) : net[i].ref = "digest" /\ net[i].answer.ok

\* the endpoint whose attempt came last: the one whose result Execute uses
LastHost == net[Len(net)].host

Done == pc = "done"
Emitted(list) == result.kind = "ok" /\ stdout = << list >>
EncodingFailed ==
  result.kind = "error" /\ result.msg = "could not marshal JSON" /\ stdout = << >>
OriginFailed ==
  /\ result.kind = "error"
  /\ result.msg = "checking origin failed"
  /\ result.host = OriginHost
  /\ stdout = << >>

\* ------------------------------------------------------------------ claims

\* C1: when the Source has no mirror, or its repository is not on the
\* default registry, the mirror attempt is never made: every request goes
\* to the repository's own registry and none to a mirror host.
C1_NoMirrorRequestWhenIneligible ==
  (~MirrorConfigured \/ OriginHost # "index.docker.io") =>
    /\ caller # "mirror"
    /\ \A i \in DOMAIN net : net[i].host = OriginHost /\ net[i].host \notin MirrorHosts

C1_Witness ==
  /\ Done
  /\ MirrorConfigured
  /\ MirrorHost = "mirror.example.com"
  /\ OriginHost = "example.com"
  /\ Len(net) >= 2

\* C2 as stated: with an eligible mirror whose tag resolution succeeded
\* (found, no error), no request is ever sent to the origin.
C2_Original ==
  (Eligible /\ TagFound(MirrorHost)) => Requests(OriginHost) = {}

\* C2 amended: with an eligible mirror whose tag resolution succeeded and
\* whose verification of the previous digest, if one is made, does not end in
\* a hard error, no request is ever sent to the origin.
C2_OriginNotQueriedAfterMirrorSuccess ==
  (Eligible /\ TagFound(MirrorHost) /\ ~AttemptHardError(MirrorHost)) =>
    Requests(OriginHost) = {}

C2_Witness ==
  /\ Done
  /\ Eligible
  /\ TagFound(MirrorHost)
  /\ PreviousFound(MirrorHost)
  /\ Requests(OriginHost) = {}
  /\ result.kind = "ok"

\* C3: when the previous version differs from the digest D the tag resolved
\* to and the previous digest was found, the response is [previous, D]: it
\* is what Execute emits (Execute fails only if the output cannot be written).
C3_PreviousThenCurrent ==
  ( /\ Done
    /\ Len(net) > 0
    /\ Input.Version # Nil
    /\ TagFound(LastHost)
    /\ TagDigest(LastHost) # Input.Version
    /\ PreviousFound(LastHost) ) =>
      \/ Emitted(<< Input.Version, TagDigest(LastHost) >>)
      \/ EncodingFailed

C3_Witness ==
  /\ Done
  /\ Len(net) > 0
  /\ Input.Version # Nil
  /\ TagFound(LastHost)
  /\ TagDigest(LastHost) # Input.Version
  /\ PreviousFound(LastHost)
  /\ Emitted(<< Input.Version, TagDigest(LastHost) >>)

\* C4: when the tag resolves to the digest of the previous version, the
\* response is the one-element list [D], and no request for the previous
\* digest is sent to the endpoint that resolved the tag.
C4_SameDigestOnce ==
  /\ \A h \in {OriginHost, MirrorHost} :
       (Input.Version # Nil /\ TagFound(h) /\ TagDigest(h) = Input.Version) =>
         ~PreviousQueried(h)
  /\ ( /\ Done
       /\ Len(net) > 0
       /\ Input.Version # Nil
       /\ TagFound(LastHost)
       /\ TagDigest(LastHost) = Input.Version ) =>
         \/ Emitted(<< Input.Version >>)
         \/ EncodingFailed

C4_Witness ==
  /\ Done
  /\ Len(net) > 0
  /\ Input.Version # Nil
  /\ TagFound(LastHost)
  /\ TagDigest(LastHost) = Input.Version
  /\ Emitted(<< Input.Version >>)

\* C5: with no previous version, when the tag resolves to D the response is
\* the one-element list [D].
C5_FirstRunCurrentOnly ==
  ( /\ Done
    /\ Len(net) > 0
    /\ stdin.valid
    /\ Input.Version = Nil
    /\ TagFound(LastHost) ) =>
      \/ Emitted(<< TagDigest(LastHost) >>)
      \/ EncodingFailed

C5_Witness ==
  /\ Done
  /\ Len(net) > 0
  /\ stdin.valid
  /\ Input.Version = Nil
  /\ TagFound(LastHost)
  /\ Emitted(<< TagDigest(LastHost) >>)

\* the tag was reported not-found on every endpoint that was queried
TagAbsentEverywhere ==
  /\ Len(net) > 0
  /\ \A i \in DOMAIN net : TagNotFound(net[i].host)

\* C6 as stated: when the tag is not found on every endpoint queried,
\* Execute succeeds and emits the empty list.
C6_Original == (Done /\ TagAbsentEverywhere) => Emitted(<< >>)

\* C6 amended: when the tag is not found on every endpoint queried, Execute
\* never fails on the registries' answers: it emits the empty list and
\* returns success, and fails only if writing that output fails.
C6_AbsentTagIsEmptyList ==
  (Done /\ TagAbsentEverywhere) => (Emitted(<< >>) \/ EncodingFailed)

C6_Witness ==
  /\ Done
  /\ TagAbsentEverywhere
  /\ Eligible
  /\ Input.Version # Nil
  /\ Emitted(<< >>)

\* headOrGet has just returned found=false
ReturnedNotFound == pc \in {"afterTag", "afterDigest"} /\ ~hg.found
SameReference(i) ==
  /\ net[i].host = hgRef.Registry
  /\ net[i].ref = hgRef.kind
  /\ net[i].digest = hgRef.digest

\* C7 as stated: every found=false result of headOrGet is preceded by a GET
\* on the same reference.
C7_Original ==
  ReturnedNotFound =>
    (Len(net) > 0 /\ net[Len(net)].verb = "GET" /\ SameReference(Len(net)))

\* C7 amended: a 404 on HEAD is authoritative at once, without a GET. A GET
\* is sent only right after a HEAD on the same reference failed with another
\* error, and every found=false result follows the 404 of the HEAD, or the
\* failure of that GET (a 404 when no error is returned).
C7_NotFoundAfterHead404OrGet ==
  /\ \A i \in DOMAIN net :
       net[i].verb = "GET" =>
         /\ i > 1
         /\ net[i - 1].verb = "HEAD"
         /\ net[i - 1].host = net[i].host
         /\ net[i - 1].ref = net[i].ref
         /\ net[i - 1].digest = net[i].digest
         /\ HardError(net[i - 1].answer)
  /\ ReturnedNotFound =>
       /\ Len(net) > 0
       /\ SameReference(Len(net))
       /\ ~net[Len(net)].answer.ok
       /\ (hg.err = NoErr) = NotFoundAnswer(net[Len(net)].answer)
       /\ (hg.err # NoErr) =>
            (net[Len(net)].verb = "GET" /\ hg.err = net[Len(net)].answer.err)

C7_Witness ==
  /\ ReturnedNotFound
  /\ hg.err = NoErr
  /\ net[Len(net)].verb = "HEAD"
  /\ NotFoundAnswer(net[Len(net)].answer)

\* the mirror attempt was made and gave no usable response
MirrorFailed ==
  /\ Eligible
  /\ AttemptHardError(MirrorHost) \/ TagNotFound(MirrorHost)

\* C8 as stated: after a failed mirror attempt the origin tag is queried and
\* the origin attempt alone decides whether Execute succeeds.
C8_Original ==
  (Done /\ MirrorFailed) =>
    /\ TagQueried(OriginHost)
    /\ (result.kind = "ok") = ~AttemptHardError(OriginHost)

\* C8 amended: a failed mirror attempt never makes Execute fail: Execute
\* goes on to query the origin tag, fails with the origin's error exactly
\* when the origin attempt fails, and otherwise emits the origin's response
\* (failing then only if that output cannot be written).
C8_MirrorFailureFallsBackToOrigin ==
  ((pc \in {"finish", "done"}) /\ MirrorFailed) =>
    /\ TagQueried(OriginHost)
    /\ LastHost = OriginHost
    /\ Done =>
         /\ AttemptHardError(OriginHost) = OriginFailed
         /\ ~AttemptHardError(OriginHost) => (Emitted(ret.response) \/ EncodingFailed)

C8_Witness ==
  /\ Done
  /\ MirrorFailed
  /\ AttemptHardError(MirrorHost)
  /\ TagFound(OriginHost)
  /\ result.kind = "ok"

C10_Original == Len(net) <= 4

\* C10 amended: one Execute makes at most eight requests, at most four on
\* each endpoint (HEAD and GET on the tag, HEAD and GET on the previous
\* digest, none of them twice), and at most four in all when the mirror is
\* not eligible.
C10_AtMostFourPerEndpoint ==
  /\ Len(net) <= 8
  /\ \A h \in {OriginHost, MirrorHost} : Cardinality(Requests(h)) <= 4
  /\ ~Eligible => Len(net) <= 4
  /\ \A i, j \in DOMAIN net :
       ( /\ net[i].host = net[j].host
         /\ net[i].verb = net[j].verb
         /\ net[i].ref = net[j].ref ) => i = j

C10_Witness == Len(net) = 8


\* C11: an emitted response has at most two elements and no digest twice;
\* when it is not empty its last element is the digest the tag resolved to on
\* the endpoint whose attempt came last, and the first of two elements is the
\* previous version of the request.
C11_ResponseShape ==
  (stdout # << >>) =>
    LET r == stdout[1] IN
      /\ Len(r) \in {0, 1, 2}
      /\ \A i, j \in DOMAIN r : r[i] = r[j] => i = j
      /\ Len(r) > 0 =>
           /\ Len(net) > 0
           /\ TagFound(LastHost)
           /\ r[Len(r)] = TagDigest(LastHost)
      /\ Len(r) = 2 => (Input.Version # Nil /\ r[1] = Input.Version)

C11_Witness ==
  /\ stdout # << >>
  /\ Len(stdout[1]) = 2
  /\ Eligible
  /\ LastHost = OriginHost
  /\ TagFound(MirrorHost)


\* the second invocation got the request of the first
SameRequest == run = 2 /\ stdin = before.stdin

\* a collaborator called in both invocations gave the same outcome in both
SameOutcome(kind) ==
  \A i \in DOMAIN before.calls, j \in DOMAIN calls :
    (before.calls[i].call = kind /\ calls[j].call = kind) =>
      before.calls[i].ok = calls[j].ok

ExchangeAttempted == \E i \in DOMAIN calls : calls[i].call = "AuthenticateToECR"
ExchangeFailed ==
  \E i \in DOMAIN calls : calls[i].call = "AuthenticateToECR" /\ ~calls[i].ok
AllAwsFields ==
  /\ Input.Source.AwsAccessKeyId # ""
  /\ Input.Source.AwsSecretAccessKey # ""
  /\ Input.Source.AwsRegion # ""

\* C13: with the access key id, the secret access key and the region all
\* non-empty the token exchange is attempted, and when it fails Execute fails
\* having sent no request and emitted nothing; with one of the three empty
\* the exchange is never attempted.
C13_EcrFailureFatalBeforeAnyRequest ==
  /\ ExchangeFailed =>
       /\ AllAwsFields
       /\ Done
       /\ result.kind = "error"
       /\ result.msg = "cannot authenticate with ECR"
       /\ net = << >>
       /\ stdout = << >>
  /\ (AllAwsFields /\ stdin.valid /\ pc \notin {"decode", "authenticate"}) =>
       ExchangeAttempted
  /\ (AllAwsFields /\ Len(net) > 0) => ExchangeAttempted /\ ~ExchangeFailed
  /\ ~AllAwsFields => ~ExchangeAttempted

C13_Witness ==
  /\ ExchangeFailed
  /\ Done
  /\ Input.Source.RegistryMirror.present
  /\ Input.Version # Nil


\* headOrGet has just returned to performCheck
HeadOrGetReturned == pc \in {"afterTag", "afterDigest"}

\* request i + 1 is the GET on the reference of request i
GetFollows(i) ==
  /\ net[i + 1].verb = "GET"
  /\ net[i + 1].host = net[i].host
  /\ net[i + 1].repo = net[i].repo
  /\ net[i + 1].ref = net[i].ref
  /\ net[i + 1].digest = net[i].digest

\* C14: headOrGet sends a HEAD first and a GET exactly when the HEAD failed
\* with an error other than a 404. A successful HEAD or GET gives the digest
\* and found=true, a 404 on either gives found=false without error, and an
\* error is returned only when the HEAD failed with a non-404 error and the
\* GET failed with a non-404 error too.
C14_HeadThenGet ==
  /\ \A i \in DOMAIN net :
       /\ (net[i].verb = "HEAD" /\ HardError(net[i].answer)) =>
            IF i = Len(net) THEN pc = "get" ELSE GetFollows(i)
       /\ (net[i].verb = "HEAD" /\ ~HardError(net[i].answer) /\ i < Len(net)) =>
            net[i + 1].verb = "HEAD"
       /\ net[i].verb = "GET" =>
            (i > 1 /\ net[i - 1].verb = "HEAD" /\ HardError(net[i - 1].answer))
  /\ pc = "get" => (Len(net) > 0 /\ net[Len(net)].verb = "HEAD")
  /\ HeadOrGetReturned =>
       /\ Len(net) > 0
       /\ SameReference(Len(net))
       /\ LET answer == net[Len(net)].answer IN
            /\ answer.ok =>
                 hg = [digest |-> answer.digest, found |-> TRUE, err |-> NoErr]
            /\ NotFoundAnswer(answer) =>
                 hg = [digest |-> Nil, found |-> FALSE, err |-> NoErr]
            /\ HardError(answer) =>
                 hg = [digest |-> Nil, found |-> FALSE, err |-> answer.err]
            /\ (hg.err # NoErr) =
                 (net[Len(net)].verb = "GET" /\ HardError(answer))

C14_Witness ==
  /\ pc = "afterDigest"
  /\ Len(net) > 2
  /\ net[Len(net)].verb = "GET"
  /\ NotFoundAnswer(net[Len(net)].answer)
  /\ HardError(net[Len(net) - 1].answer)
  /\ hg.found = FALSE
  /\ hg.err = NoErr


\* request j is the tag resolution that request i, on a digest, follows:
\* found, with only requests on that digest in between
ResolvedBy(j, i) ==
  /\ j < i
  /\ net[j].ref = "tag"
  /\ net[j].answer.ok
  /\ \A k \in (j + 1)..i : net[k].ref = "digest"

\* C15: every request on the previous digest goes to the host and repository
\* whose tag request has just found the tag, so a previous version that is
\* emitted was retrieved where the current digest was resolved.
C15_PreviousVerifiedWhereTagResolved ==
  /\ \A i \in DOMAIN net :
       net[i].ref = "digest" =>
         \E j \in DOMAIN net :
           /\ ResolvedBy(j, i)
           /\ net[j].host = net[i].host
           /\ net[j].repo = net[i].repo
  /\ (stdout # << >> /\ Len(stdout[1]) = 2) =>
       /\ TagFound(LastHost)
       /\ PreviousFound(LastHost)
       /\ \A i \in DOMAIN net :
            (net[i].host = LastHost) => net[i].repo = net[Len(net)].repo

C15_Witness ==
  /\ Eligible
  /\ MirrorHost # OriginHost
  /\ \E i \in DOMAIN net : net[i].ref = "digest" /\ net[i].host = MirrorHost
  /\ \E i \in DOMAIN net : net[i].ref = "digest" /\ net[i].host = OriginHost
  /\ stdout # << >>
  /\ Len(stdout[1]) = 2


\* C16: when no token exchange applies, every request to the origin carries
\* the static username and password of the Source as configured, and is
\* anonymous only when both are empty.
C16_Original ==
  ~AllAwsFields =>
    \A i \in DOMAIN net :
      net[i].host = OriginHost =>
        IF Input.Source.BasicCredentials = NoCredentials
        THEN net[i].anonymous
        ELSE ~net[i].anonymous /\ net[i].auth = Input.Source.BasicCredentials


\* request i carries exactly the pair p, or nothing when p lacks a field
Carries(i, p) ==
  IF p.Username # "" /\ p.Password # ""
  THEN ~net[i].anonymous /\ net[i].auth = p
  ELSE net[i].anonymous /\ net[i].auth = NoCredentials

\* C17: every request to the mirror carries the static credentials of the
\* mirror or none, every request to the origin carries the credentials of the
\* origin (the token when it was exchanged, the static pair otherwise) or
\* none, and no request carries the credentials of the other endpoint, also
\* on the origin attempt that follows a failed mirror attempt.
C17_CredentialsNeverCrossed ==
  \A i \in DOMAIN net :
    /\ net[i].host \in {OriginHost, MirrorHost}
    /\ net[i].host = MirrorHost =>
         /\ Eligible
         /\ Carries(i, Input.Source.RegistryMirror.BasicCredentials)
    /\ net[i].host = OriginHost =>
         Carries(i, IF ExchangeAttempted THEN EcrCredentials
                    ELSE Input.Source.BasicCredentials)

C17_Witness ==
  /\ Done
  /\ MirrorFailed
  /\ ExchangeAttempted
  /\ \E i \in DOMAIN net :
       /\ net[i].host = MirrorHost
       /\ net[i].auth = [Username |-> "muser", Password |-> "mpass"]
  /\ \E i \in DOMAIN net :
       /\ net[i].host = OriginHost
       /\ net[i].auth = EcrCredentials
  /\ Input.Source.BasicCredentials = [Username |-> "user", Password |-> "pass"]


\* the second invocation got the request of the first without its mirror
WithoutMirror ==
  /\ run = 2
  /\ before.stdin.valid
  /\ before.stdin.req.Source.RegistryMirror.present
  /\ stdin = [before.stdin EXCEPT !.req.Source.RegistryMirror = NoMirror]

MirrorBefore == before.stdin.req.Source.RegistryMirror.Host
ToMirrorBefore == {i \in DOMAIN before.net : before.net[i].host = MirrorBefore}
ToOrigin(q) == q.host # MirrorBefore

\* in the first invocation the mirror resolved the tag
MirrorResolvedBefore ==
  \E i \in ToMirrorBefore : before.net[i].ref = "tag" /\ before.net[i].answer.ok

\* in the first invocation the mirror attempt gave no usable response: a
\* request failed with a hard error, or the tag was not found
MirrorFailedBefore ==
  \E i \in ToMirrorBefore :
    \/ before.net[i].verb = "GET" /\ HardError(before.net[i].answer)
    \/ before.net[i].ref = "tag" /\ NotFoundAnswer(before.net[i].answer)

\* C18: when the mirror attempt gave no usable response (a hard error on the
\* tag or on the previous digest, or the tag not found), Execute sends the
\* origin the requests it sends for the same request without a mirror, and,
\* the token exchange and the output write behaving alike, ends as it does
\* without a mirror: the same response list or the same failure. What is
\* emitted was resolved on the origin.
C18_FailedMirrorAsNoMirror ==
  (Done /\ WithoutMirror /\ MirrorFailedBefore /\ SameOutcome("AuthenticateToECR")) =>
    /\ net = SelectSeq(before.net, ToOrigin)
    /\ SameOutcome("Encode") => (result = before.result /\ stdout = before.stdout)
    /\ (before.stdout # << >> /\ Len(before.stdout[1]) > 0) =>
         /\ TagFound(OriginHost)
         /\ before.stdout[1][Len(before.stdout[1])] = TagDigest(OriginHost)
         /\ Len(before.stdout[1]) = 2 => PreviousFound(OriginHost)

C18_Witness ==
  /\ Done
  /\ WithoutMirror
  /\ MirrorFailedBefore
  /\ MirrorResolvedBefore
  /\ result.kind = "ok"
  /\ stdout = before.stdout
  /\ Len(stdout[1]) = 2


\* the attempt that came last resolved the tag to a digest other than the
\* previous version, and its last request, on the previous digest, was
\* answered not-found
PreviousGone ==
  /\ Len(net) > 0
  /\ net[Len(net)].ref = "digest"
  /\ NotFoundAnswer(net[Len(net)].answer)
  /\ TagFound(LastHost)
  /\ Input.Version # Nil
  /\ Input.Version # TagDigest(LastHost)

\* C19: when the tag resolves to D, the previous version differs from D and
\* its digest is answered not-found on the endpoint that resolved the tag,
\* performCheck returns [D] without error and Execute emits exactly [D]
\* (unless the output write fails). The previous version is emitted only in
\* front of D and only after a request on its digest succeeded in this
\* invocation on the endpoint whose response is emitted.
C19_GonePreviousIsSkipped ==
  /\ (PreviousGone /\ pc \in {"mirrorReturn", "originReturn"}) =>
       ret = [response |-> << TagDigest(LastHost) >>, err |-> NoErr]
  /\ (PreviousGone /\ pc \in {"origin", "finish"}) =>
       (response = << TagDigest(LastHost) >> /\ err = NoErr)
  /\ (PreviousGone /\ Done) =>
       (Emitted(<< TagDigest(LastHost) >>) \/ EncodingFailed)
  /\ \A i \in DOMAIN stdout : \A k \in DOMAIN stdout[i] :
       (stdout[i][k] = Input.Version /\ Input.Version # TagDigest(LastHost)) =>
         /\ k = 1
         /\ Len(stdout[i]) = 2
         /\ \E j \in Requests(LastHost) :
              /\ net[j].ref = "digest"
              /\ net[j].digest = Input.Version
              /\ net[j].answer.ok

C19_Witness ==
  /\ PreviousGone
  /\ Done
  /\ Emitted(<< TagDigest(LastHost) >>)
  /\ Eligible
  /\ LastHost = MirrorHost


\* request i ends the resolution of the tag: it is on the tag, and the next
\* request, if any, is not the GET that retries it
EndsTagResolution(i) ==
  /\ net[i].ref = "tag"
  /\ ~(net[i].verb = "HEAD" /\ HardError(net[i].answer))

\* the tag resolution ending at request i calls for the previous digest
CallsForPrevious(i) ==
  /\ net[i].answer.ok
  /\ Input.Version # Nil
  /\ Input.Version # net[i].answer.digest

\* C20: within one endpoint attempt a request on the previous digest is sent
\* exactly when the tag resolution found the tag, a previous version was
\* supplied and it differs from the resolved digest: it comes right after
\* that resolution, on the previous version's digest, and an attempt whose
\* tag is not found, or fails, sends none.
C20_DigestRequestIffNeeded ==
  /\ \A i \in DOMAIN net :
       net[i].ref = "digest" =>
         /\ net[i].digest = Input.Version
         /\ \E j \in DOMAIN net :
              /\ ResolvedBy(j, i)
              /\ net[j].host = net[i].host
              /\ CallsForPrevious(j)
  /\ \A i \in DOMAIN net :
       EndsTagResolution(i) =>
         IF CallsForPrevious(i)
         THEN IF i = Len(net)
              THEN pc = "afterTag" \/ (pc = "head" /\ hgRef.kind = "digest")
              ELSE /\ net[i + 1].ref = "digest"
                   /\ net[i + 1].verb = "HEAD"
                   /\ net[i + 1].host = net[i].host
         ELSE i < Len(net) => net[i + 1].ref = "tag" /\ net[i + 1].host # net[i].host
  /\ \A h \in {OriginHost, MirrorHost} :
       (TagQueried(h) /\ ~TagFound(h)) => ~PreviousQueried(h)

C20_Witness ==
  /\ Done
  /\ Eligible
  /\ TagNotFound(MirrorHost)
  /\ ~PreviousQueried(MirrorHost)
  /\ PreviousQueried(OriginHost)
  /\ Input.Version # Nil

====
